---- MODULE Spec2Model ----
(***************************************************************************)
(* ResidualBoostingForecaster (residualboosting/forecaster.py) as a state  *)
(* machine: one estimator instance that is constructed, fitted, queried    *)
(* and updated.  The wrapped base forecaster and the host framework's      *)
(* public fit/predict/update dispatch are collaborators that live outside  *)
(* the repository; they are modelled from the contract the specification   *)
(* gives for them (section 3, BaseForecasterInstance, and section 4.1).    *)
(***************************************************************************)
EXTENDS Integers, Sequences, FiniteSets, TLC

\* ------------------------------------------------------------------ bounds
\* num_iter is drawn from -1..MaxIter
MaxIter == 3
\* number of fit/predict/update calls made on one instance
MaxOps == 3

\* ------------------------------------------------------------ data model
\* The observations of the series handed to fit and update: every series of
\* two observations over {0, 1}, and one of three observations.
SeriesVals == [1..2 -> {0, 1}] \cup {<<1, 0, 1>>}

\* A series: consecutive time points start, start+1, ... with one value each.
SeriesAt(start) == {[start |-> start, vals |-> v] : v \in SeriesVals}

\* y.index.get_level_values(-1).unique(): the time points of y, in order
Index(y) == [i \in 1..Len(y.vals) |-> y.start + i - 1]

\* The exogenous frame: absent (None), or a frame holding one regressor level.
NoneX == <<>>
XChoices == {NoneX, <<1>>}
XVal(X) == IF X = NoneX THEN 0 ELSE X[1]

\* A horizon: relative steps ahead of the cutoff, or absolute time points.
RelFh(steps) == [abs |-> FALSE, at |-> steps]
AbsFh(times) == [abs |-> TRUE, at |-> times]
FhChoices == {RelFh(<<1>>), RelFh(<<1, 2>>)}
\* the horizon handed to fit
FitFh == RelFh(<<1>>)

\* position-wise arithmetic on value sequences (numpy .values arithmetic)
SeqAdd(a, b) == [i \in 1..Len(a) |-> a[i] + b[i]]
SeqSub(a, b) == [i \in 1..Len(a) |-> a[i] - b[i]]
Zeros(n) == [i \in 1..n |-> 0]

\* --------------------------------------------------- the base forecaster
\* BaseForecasterInstance of the specification: fit, predict, update, clone
\* and the in-sample capability flag.  Three deterministic stand-ins, each
\* keeping the series it was trained on (w, ending at time t0):
\*   "ExponentialSmoothing"  the default template, smoothing level 1: in
\*                           sample the previous value, ahead the last value
\*   "last"                  the last training value at every point
\*   "trend"                 the line through the last two training values
\* A forecaster that does not ignore X learns on y - X and adds X back.
\* A tag value is written as the text of the Python value.
Flag(b) == IF b THEN "True" ELSE "False"

\* the tags a template declares: its in-sample capability and the tags an
\* ensemble takes over from it
TemplateTagNames ==
    {"capability:insample", "capability:exogenous", "ignores-exogeneous-X",
     "requires-fh-in-fit", "X-y-must-have-same-index", "enforce_index_type",
     "handles-missing-data", "python_version", "python_dependencies"}

\* the tags of a forecaster that supports in-sample prediction as told,
\* ignores X as told and declares `rest` for every other tag
TagsOf(insample, ignoresX, rest) ==
    [t \in TemplateTagNames |->
        CASE t = "capability:insample" -> Flag(insample)
          [] t = "ignores-exogeneous-X" -> Flag(ignoresX)
          [] OTHER -> rest[t]]

\* what the stand-ins declare for the other tags
PlainTags ==
    [t \in TemplateTagNames |->
        CASE t \in {"enforce_index_type", "python_version"} -> "None"
          [] t = "python_dependencies" -> "statsmodels"
          [] t = "X-y-must-have-same-index" -> "True"
          [] OTHER -> "False"]

\* a template with the tags it declares; insample and ignoresX are the
\* values of its "capability:insample" and "ignores-exogeneous-X" tags
TaggedTemplate(kind, tags) ==
    [kind |-> kind, insample |-> (tags["capability:insample"] = "True"),
     ignoresX |-> (tags["ignores-exogeneous-X"] = "True"), tags |-> tags]

Template(kind, insample, ignoresX) ==
    TaggedTemplate(kind, TagsOf(insample, ignoresX, PlainTags))

\* templates that declare every combination of two values for each tag
TagTemplates ==
    { TaggedTemplate("last",
        [t \in TemplateTagNames |->
            CASE t = "capability:insample" -> Flag(ins)
              [] t = "capability:exogenous" -> Flag(exo)
              [] t = "ignores-exogeneous-X" -> Flag(ign)
              [] t = "requires-fh-in-fit" -> Flag(rfh)
              [] t = "X-y-must-have-same-index" -> Flag(same)
              [] t = "handles-missing-data" -> Flag(miss)
              [] t = "enforce_index_type" -> idx
              [] t = "python_version" -> ver
              [] OTHER -> dep]) :
        ins \in BOOLEAN, exo \in BOOLEAN, ign \in BOOLEAN, rfh \in BOOLEAN,
        same \in BOOLEAN, miss \in BOOLEAN, idx \in {"None", "period"},
        ver \in {"None", ">=3.9"}, dep \in {"None", "statsmodels"} }

\* ExponentialSmoothing(): supports in-sample prediction, ignores X
ExponentialSmoothing == Template("ExponentialSmoothing", TRUE, TRUE)

\* base_forecaster=None
NoneForecaster == Template("None", FALSE, TRUE)

\* a forecaster that predicts the mean of its training series at every point
MeanForecaster == Template("mean", TRUE, TRUE)

Templates ==
    { Template("last", TRUE, FALSE), Template("trend", TRUE, FALSE),
      Template("trend", FALSE, FALSE) }

\* clone(): an independent, unfitted copy of the template, a new object `id`
Clone(template, id) ==
    [id |-> id, kind |-> template.kind, ignoresX |-> template.ignoresX,
     fitted |-> FALSE, w |-> <<>>, t0 |-> 0, cutoff |-> 0]

\* the fitted parameters of a forecaster
Params(f) == <<f.w, f.t0>>

XEffect(f, X) == IF f.ignoresX THEN 0 ELSE XVal(X)

Learn(f, y, X) ==
    [f EXCEPT !.fitted = TRUE,
              !.w = [i \in 1..Len(y.vals) |-> y.vals[i] - XEffect(f, X)],
              !.t0 = y.start + Len(y.vals) - 1,
              !.cutoff = y.start + Len(y.vals) - 1]

\* forecaster.fit(y, X, fh)
BaseFit(f, y, X, fh) == Learn(f, y, X)

\* forecaster.update(y, X, update_params): the cutoff always moves to the end
\* of y; the fitted parameters change only when update_params is true
BaseUpdate(f, y, X, update_params) ==
    IF update_params THEN Learn(f, y, X)
    ELSE [f EXCEPT !.cutoff = y.start + Len(y.vals) - 1]

RECURSIVE SeqSum(_)
SeqSum(a) == IF a = <<>> THEN 0 ELSE Head(a) + SeqSum(Tail(a))

\* the forecast of f for time t, before the effect of X
Level(f, t) ==
    LET n == Len(f.w)
        pos == t - (f.t0 - n)     \* position of t in the training series
    IN  CASE f.kind = "last" -> f.w[n]
          [] f.kind = "mean" -> SeqSum(f.w) \div n
          [] f.kind = "trend" ->
                f.w[n] + (IF n >= 2 THEN f.w[n] - f.w[n - 1] ELSE 0) * (t - f.t0)
          [] OTHER ->
                IF pos > n THEN f.w[n] ELSE IF pos <= 1 THEN f.w[1] ELSE f.w[pos - 1]

\* forecaster.predict(fh, X): one value per point of the horizon
BasePredict(f, fh, X) ==
    [i \in 1..Len(fh.at) |->
        Level(f, IF fh.abs THEN fh.at[i] ELSE f.cutoff + fh.at[i]) + XEffect(f, X)]

\* one logged call on a base forecaster
Call(op, id, target, fh, X, update_params) ==
    [op |-> op, id |-> id, target |-> target, fh |-> fh, X |-> X,
     update_params |-> update_params]


NoSeries == [start |-> 0, vals |-> <<>>]
NoFh == RelFh(<<>>)

\* ------------------------------------------------------------- the state
VARIABLES
    state,             \* "none" (not constructed), "unfitted" or "fitted"
    base_forecaster,   \* self.base_forecaster, as given to the constructor
    num_iter,          \* self.num_iter
    _base_forecaster,  \* self._base_forecaster, the resolved template
    forecasters_,      \* self.forecasters_, one fitted clone per round
    cutoff,            \* self.cutoff, the last time point seen
    nextId,            \* identity of the next object clone() creates
    calls,             \* the calls the last operation made on base forecasters
    ret,               \* the last operation, its arguments and its outcome
    nops,              \* number of fit/predict/update calls made so far
    tags,              \* the tags get_tag reads: _tags and the cloned ones
    fault,             \* the base forecaster call that raises in the next
                       \* fit or update, if any
    first_level_selector   \* the dropdown of display_hierarchical_timeseries

vars == <<state, base_forecaster, num_iter, _base_forecaster, forecasters_,
          cutoff, nextId, calls, ret, nops, tags, fault, first_level_selector>>

\* no dropdown created yet
NoSelector == [created |-> FALSE, options |-> <<>>, value |-> ""]

\* A fault [op, k]: the k-th round's call of op ("fit", "predict" or
\* "update") on its base forecaster raises.  NoFault: no call raises.
NoFault == [op |-> "none", k |-> 0]
Raises(op, k) == fault = [op |-> op, k |-> k]

\* what a loop hands back when it ran to its end
Returned(fs, log) == [forecasters_ |-> fs, calls |-> log, error |-> ""]

\* the record of an operation: its name, its arguments, whether it returned
\* (ok) or raised (error), the value it returned, and the name of the
\* operation made before it (after); for fit, the caller's y and X objects
\* as they are when the call returns (caller_y, caller_X)
NoOutcome ==
    [op |-> "none", ok |-> TRUE, error |-> "", value |-> <<>>, y |-> NoSeries,
     X |-> NoneX, fh |-> NoFh, update_params |-> FALSE,
     bf |-> NoneForecaster, n |-> 0, after |-> "none",
     caller_y |-> <<>>, caller_X |-> NoneX]

\* ----------------------------------------------------------- __init__
\* "Handle default base forecaster"
resolve_base_forecaster(bf) ==
    IF bf = NoneForecaster THEN ExponentialSmoothing ELSE bf

\* __init__ with the bound on num_iter off by one
init_error_accepts_zero(bf, n) ==
    IF ~resolve_base_forecaster(bf).insample THEN "ValueError"
    ELSE IF n < 0 THEN "ValueError"
    ELSE ""

\* "Parameter checking logic": the error __init__ raises, or "" for none
init_error(bf, n) ==
    IF ~resolve_base_forecaster(bf).insample THEN "ValueError"
    ELSE IF n < 1 THEN "ValueError"
    ELSE ""

\* the class attribute _tags ("authors" and "maintainers" left out)
_tags ==
    [t \in {"y_inner_mtype", "X_inner_mtype", "scitype:y", "capability:pred_int",
            "capability:pred_int:insample", "capability:insample",
            "ignores-exogeneous-X", "requires-fh-in-fit",
            "X-y-must-have-same-index", "enforce_index_type",
            "handles-missing-data", "python_version", "python_dependencies"} |->
        CASE t = "y_inner_mtype" -> "pd.Series"
          [] t = "X_inner_mtype" -> "pd.DataFrame"
          [] t = "scitype:y" -> "univariate"
          [] t \in {"capability:insample", "requires-fh-in-fit",
                    "X-y-must-have-same-index"} -> "True"
          [] t \in {"enforce_index_type", "python_version",
                    "python_dependencies"} -> "None"
          [] OTHER -> "False"]

\* the list handed to clone_tags, without "handles-missing-data"
cloned_tag_names_short ==
    {"capability:exogenous", "ignores-exogeneous-X", "requires-fh-in-fit",
     "X-y-must-have-same-index", "enforce_index_type", "python_version",
     "python_dependencies"}

\* the list of tag names handed to clone_tags
cloned_tag_names ==
    {"capability:exogenous", "ignores-exogeneous-X", "requires-fh-in-fit",
     "X-y-must-have-same-index", "enforce_index_type", "handles-missing-data",
     "python_version", "python_dependencies"}

\* the framework's clone_tags: the named tags the estimator declares are
\* set on the instance with the estimator's values, over its own
clone_tags(own, estimator_tags, tag_names) ==
    LET taken == tag_names \cap DOMAIN estimator_tags
    IN  [t \in (DOMAIN own) \cup taken |->
            IF t \in taken THEN estimator_tags[t] ELSE own[t]]

\* ---------------------------------------------------------------- _fit
\* the residual of the latest round alone, as in the draft forecaster_3.py
fit_residual_latest_only(y, cumulative_preds, insample_preds) ==
    SeqSub(y.vals, insample_preds)

\* the residual target of the next round
fit_residual(y, cumulative_preds, insample_preds) ==
    SeqSub(y.vals, cumulative_preds)

\* the identity of the template object held in self._base_forecaster
TemplateId == 0

\* forecaster = self._base_forecaster: the round works on the template itself
round_forecaster_uncloned(i) == Clone(_base_forecaster, TemplateId)

\* forecaster = self._base_forecaster.clone(): round i works on a new object
round_forecaster(i) == Clone(_base_forecaster, nextId + i)

\* a loop that catches the error of a round and ends as if it had finished
swallow(fs, log) == [forecasters_ |-> fs, calls |-> log, error |-> ""]

\* no statement of the loops of _fit and _update catches an error: the
\* error of a base forecaster leaves the loop, and the operation, at once
propagate(fs, log) == [forecasters_ |-> fs, calls |-> log, error |-> "BaseError"]

RECURSIVE fit_rounds(_, _, _, _, _, _, _, _)
\* the loop of _fit from round i on: timeseries_to_predict is the current
\* target, cumulative_preds the running sum, fs the ensemble so far
fit_rounds(i, y, X, fh, timeseries_to_predict, cumulative_preds, fs, log) ==
    IF i >= num_iter THEN Returned(fs, log)
    ELSE IF Raises("fit", i + 1) THEN
        propagate(fs, Append(log, Call("fit", round_forecaster(i).id,
                                       timeseries_to_predict.vals, fh, X, FALSE)))
    ELSE IF Raises("predict", i + 1) THEN
        propagate(fs, log \o << Call("fit", round_forecaster(i).id,
                                     timeseries_to_predict.vals, fh, X, FALSE),
                                Call("predict", round_forecaster(i).id, <<>>,
                                     AbsFh(Index(y)), X, FALSE) >>)
    ELSE
        LET forecaster == BaseFit(round_forecaster(i),
                                  timeseries_to_predict, X, fh)
            insample_fh == AbsFh(Index(y))
            insample_preds == BasePredict(forecaster, insample_fh, X)
            cum == SeqAdd(cumulative_preds, insample_preds)
            negative_residuals ==
                [y EXCEPT !.vals = fit_residual(y, cum, insample_preds)]
        IN  fit_rounds(i + 1, y, X, fh, negative_residuals, cum,
                       Append(fs, forecaster),
                       log \o << Call("fit", forecaster.id,
                                      timeseries_to_predict.vals, fh, X, FALSE),
                                 Call("predict", forecaster.id, <<>>,
                                      insample_fh, X, FALSE) >>)

\* _fit without "self.forecasters_ = []": rounds pile up on a re-fit
_fit_keeps_ensemble(y, X, fh) ==
    fit_rounds(0, y, X, fh, y, Zeros(Len(y.vals)), forecasters_, <<>>)

\* _fit that leaves X out of the rounds' fit calls
_fit_without_X(y, X, fh) ==
    fit_rounds(0, y, NoneX, fh, y, Zeros(Len(y.vals)), <<>>, <<>>)

\* timeseries_to_predict = y.copy(); self.forecasters_ = [];
\* cumulative_preds = 0 over y's index; then the rounds
_fit(y, X, fh) ==
    fit_rounds(0, y, X, fh, y, Zeros(Len(y.vals)), <<>>, <<>>)

----------------------------------------------------------------------------
\* _fit of the tutorial draft _tutorial_files/forecaster_3.py

\* the residual taken the other way round (insample_preds - y)
forecaster_3_residual_negated(y, insample_preds) == SeqSub(insample_preds, y.vals)

\* negative_residuals = y - insample_preds: the latest round's prediction only
forecaster_3_residual(y, insample_preds) == SeqSub(y.vals, insample_preds)

RECURSIVE forecaster_3_fit_rounds(_, _, _, _, _, _, _)
\* the draft's loop from round i on
forecaster_3_fit_rounds(i, y, X, fh, timeseries_to_predict, fs, log) ==
    IF i >= num_iter THEN [forecasters_ |-> fs, calls |-> log]
    ELSE
        LET forecaster == BaseFit(round_forecaster(i), timeseries_to_predict, X, fh)
            insample_fh == AbsFh(Index(y))
            insample_preds == BasePredict(forecaster, insample_fh, X)
            negative_residuals ==
                [y EXCEPT !.vals = forecaster_3_residual(y, insample_preds)]
        IN  forecaster_3_fit_rounds(i + 1, y, X, fh, negative_residuals,
                       Append(fs, forecaster),
                       log \o << Call("fit", forecaster.id,
                                      timeseries_to_predict.vals, fh, X, FALSE),
                                 Call("predict", forecaster.id, <<>>,
                                      insample_fh, X, FALSE) >>)

\* timeseries_to_predict = y.copy(); self.forecasters_ = []; then the rounds
forecaster_3_fit(y, X, fh) ==
    forecaster_3_fit_rounds(0, y, X, fh, y, <<>>, <<>>)

\* ------------------------------------------------- _fit and its objects
\* _fit again, statement by statement, on the objects the statements read
\* and write.  A heap is a sequence of values and a reference a position in
\* it: position 1 holds the caller's y, position 2 the caller's X.
CallerHeap(y, X) == <<y.vals, X>>

\* y.copy(): a new object with the values of the object at ref
copy_object(heap, ref) ==
    [heap |-> Append(heap, heap[ref]), ref |-> Len(heap) + 1]

\* pd.Series(0, index=y.index): a new object of zeros, as long as y
zeros_object(heap, yref) ==
    [heap |-> Append(heap, Zeros(Len(heap[yref]))), ref |-> Len(heap) + 1]

\* cumulative_preds += insample_preds.values: written into cumulative_preds
add_in_place(heap, ref, values) ==
    [heap EXCEPT ![ref] = SeqAdd(heap[ref], values)]

\* the residual written into y itself (y -= cumulative_preds.values)
subtract_in_place(heap, yref, values) ==
    [heap |-> [heap EXCEPT ![yref] = SeqSub(heap[yref], values)], ref |-> yref]

\* negative_residuals = y - cumulative_preds.values: a new object
subtract_to_new(heap, yref, values) ==
    [heap |-> Append(heap, SeqSub(heap[yref], values)), ref |-> Len(heap) + 1]

RECURSIVE fit_rounds_objects(_, _, _, _, _, _, _)
\* the loop of _fit from round i on: target and cum are the references held
\* by timeseries_to_predict and cumulative_preds, start is y's first time
fit_rounds_objects(i, heap, start, fh, target, cum, fs) ==
    IF i >= num_iter THEN [heap |-> heap, forecasters_ |-> fs]
    ELSE
        LET forecaster == BaseFit(round_forecaster(i),
                                  [start |-> start, vals |-> heap[target]],
                                  heap[2], fh)
            insample_fh == AbsFh(Index([start |-> start, vals |-> heap[1]]))
            insample_preds == BasePredict(forecaster, insample_fh, heap[2])
            added == add_in_place(heap, cum, insample_preds)
            negative_residuals == subtract_to_new(added, 1, added[cum])
        IN  fit_rounds_objects(i + 1, negative_residuals.heap, start, fh,
                               negative_residuals.ref, cum, Append(fs, forecaster))

\* _fit(y, X, fh) on the caller's objects
_fit_objects(y, X, fh) ==
    LET copied == copy_object(CallerHeap(y, X), 1)
        zeroed == zeros_object(copied.heap, 1)
    IN  fit_rounds_objects(0, zeroed.heap, y.start, fh, copied.ref, zeroed.ref, <<>>)

\* ------------------------------------------------------------ _predict
RECURSIVE predict_rounds(_, _, _, _, _, _)
\* the loop of _predict from the k-th forecaster on; the ensemble fs is read
\* and handed back as it is
predict_rounds(k, fs, fh, X, y_pred, log) ==
    IF k > Len(fs) THEN [y_pred |-> y_pred, forecasters_ |-> fs, calls |-> log]
    ELSE predict_rounds(k + 1, fs, fh, X,
                        SeqAdd(y_pred, BasePredict(fs[k], fh, X)),
                        Append(log, Call("predict", fs[k].id, <<>>, fh, X, FALSE)))

\* _predict that returns the last forecaster's prediction only
_predict_last_only(fh, X) ==
    predict_rounds(Len(forecasters_), forecasters_, fh, X, Zeros(Len(fh.at)), <<>>)

\* _predict that takes each forecaster out of the ensemble as it asks it
_predict_consuming(fh, X) ==
    [predict_rounds(1, forecasters_, fh, X, Zeros(Len(fh.at)), <<>>)
        EXCEPT !.forecasters_ = <<>>]

\* y_pred = 0, then y_pred += forecaster.predict(fh, X) for every forecaster
_predict(fh, X) ==
    predict_rounds(1, forecasters_, fh, X, Zeros(Len(fh.at)), <<>>)

\* ------------------------------------------------------------- _update
\* the residual of the latest forecaster alone
update_residual_latest_only(y, cumulative_preds, insample_preds) ==
    SeqSub(y.vals, insample_preds)

\* the residual target of the next forecaster in the list
update_residual(y, cumulative_preds, insample_preds) ==
    SeqSub(y.vals, cumulative_preds)

RECURSIVE update_rounds(_, _, _, _, _, _, _, _)
\* the loop of _update from the k-th forecaster on: each forecaster of the
\* list is updated in place on the current target
update_rounds(k, y, X, update_params, timeseries_to_predict, cumulative_preds, fs, log) ==
    IF k > Len(fs) THEN Returned(fs, log)
    ELSE IF Raises("update", k) THEN
        propagate(fs, Append(log, Call("update", fs[k].id,
                                       timeseries_to_predict.vals, NoFh, X,
                                       update_params)))
    ELSE IF Raises("predict", k) THEN
        propagate([fs EXCEPT ![k] = BaseUpdate(fs[k], timeseries_to_predict, X,
                                               update_params)],
                  log \o << Call("update", fs[k].id, timeseries_to_predict.vals,
                                 NoFh, X, update_params),
                            Call("predict", fs[k].id, <<>>, AbsFh(Index(y)), X,
                                 FALSE) >>)
    ELSE
        LET forecaster == BaseUpdate(fs[k], timeseries_to_predict, X, update_params)
            insample_fh == AbsFh(Index(y))
            insample_preds == BasePredict(forecaster, insample_fh, X)
            cum == SeqAdd(cumulative_preds, insample_preds)
            negative_residuals ==
                [y EXCEPT !.vals = update_residual(y, cum, insample_preds)]
        IN  update_rounds(k + 1, y, X, update_params, negative_residuals, cum,
                          [fs EXCEPT ![k] = forecaster],
                          log \o << Call("update", forecaster.id,
                                         timeseries_to_predict.vals, NoFh, X,
                                         update_params),
                                    Call("predict", forecaster.id, <<>>,
                                         insample_fh, X, FALSE) >>)

\* _update written as a fit of fresh clones on the new data
_update_refits_clones(y, X, update_params) ==
    fit_rounds(0, y, X, NoFh, y, Zeros(Len(y.vals)), <<>>, <<>>)

\* _update that always lets the forecasters update their parameters
_update_ignores_flag(y, X, update_params) ==
    update_rounds(1, y, X, TRUE, y, Zeros(Len(y.vals)), forecasters_, <<>>)

\* timeseries_to_predict = y.copy(); cumulative_preds = 0 over y's index;
\* then every forecaster of self.forecasters_ in order
_update(y, X, update_params) ==
    update_rounds(1, y, X, update_params, y, Zeros(Len(y.vals)),
                  forecasters_, <<>>)

\* ------------------------------------------------------------ operations
Init ==
    /\ state = "none"
    /\ base_forecaster = NoneForecaster
    /\ num_iter = 0
    /\ _base_forecaster = NoneForecaster
    /\ forecasters_ = <<>>
    /\ cutoff = 0
    /\ nextId = 1
    /\ calls = <<>>
    /\ ret = NoOutcome
    /\ nops = 0
    /\ tags = _tags
    /\ fault = NoFault
    /\ first_level_selector = NoSelector

\* ResidualBoostingForecaster(base_forecaster=bf, num_iter=n)
Construct(bf, n) ==
    /\ state = "none"
    /\ UNCHANGED first_level_selector
    /\ LET error == init_error(bf, n)
       IN  /\ ret' = [NoOutcome EXCEPT !.op = "init", !.after = ret.op, !.ok = (error = ""),
                                       !.error = error, !.bf = bf, !.n = n]
           /\ IF error = ""
              THEN /\ state' = "unfitted"
                   /\ base_forecaster' = bf
                   /\ num_iter' = n
                   /\ _base_forecaster' = resolve_base_forecaster(bf)
                   /\ tags' = clone_tags(_tags, resolve_base_forecaster(bf).tags,
                                         cloned_tag_names)
              ELSE UNCHANGED <<state, base_forecaster, num_iter, _base_forecaster,
                               tags>>
    /\ UNCHANGED <<forecasters_, cutoff, nextId, calls, nops, fault>>

\* a framework that lets every operation through
check_is_fitted_never_raises == ""

\* the framework's check_is_fitted: the error raised, or "" when fitted
check_is_fitted == IF state = "fitted" THEN "" ELSE "NotFittedError"

\* fit(y, X, fh): the framework resets the state, runs _fit, marks fitted
\* when _fit returned
Fit(y, X, fh) ==
    /\ state \in {"unfitted", "fitted"}
    /\ UNCHANGED first_level_selector
    /\ nops < MaxOps
    /\ \E r \in {_fit(y, X, fh)}, objects \in {_fit_objects(y, X, fh).heap} :
           /\ forecasters_' = r.forecasters_
           /\ calls' = r.calls
           /\ state' = IF r.error = "" THEN "fitted" ELSE "unfitted"
           /\ ret' = [NoOutcome EXCEPT !.op = "fit", !.after = ret.op,
                                       !.ok = (r.error = ""),
                                       !.error = r.error,
                                       !.y = y, !.X = X, !.fh = fh,
                                       !.caller_y = objects[1],
                                       !.caller_X = objects[2]]
    /\ cutoff' = y.start + Len(y.vals) - 1
    /\ nextId' = nextId + num_iter
    /\ fault' = NoFault
    /\ nops' = nops + 1
    /\ UNCHANGED <<base_forecaster, num_iter, _base_forecaster, tags>>

\* predict(fh, X): check_is_fitted, then _predict
Predict(fh, X) ==
    /\ state \in {"unfitted", "fitted"}
    /\ UNCHANGED first_level_selector
    /\ nops < MaxOps
    /\ IF check_is_fitted # ""
       THEN /\ ret' = [NoOutcome EXCEPT !.op = "predict", !.after = ret.op,
                                        !.ok = FALSE, !.error = check_is_fitted,
                                        !.fh = fh, !.X = X]
            /\ calls' = <<>>
            /\ UNCHANGED forecasters_
       ELSE \E r \in {_predict(fh, X)} :
                /\ ret' = [NoOutcome EXCEPT !.op = "predict", !.after = ret.op,
                                            !.value = r.y_pred,
                                            !.fh = fh, !.X = X]
                /\ calls' = r.calls
                /\ forecasters_' = r.forecasters_
    /\ nops' = nops + 1
    /\ UNCHANGED <<state, base_forecaster, num_iter, _base_forecaster,
                   cutoff, nextId, tags, fault>>

\* update(y, X, update_params): check_is_fitted, move the cutoff, then _update
Update(y, X, update_params) ==
    /\ state \in {"unfitted", "fitted"}
    /\ UNCHANGED first_level_selector
    /\ nops < MaxOps
    /\ IF check_is_fitted # ""
       THEN /\ ret' = [NoOutcome EXCEPT !.op = "update", !.after = ret.op,
                                        !.ok = FALSE, !.error = check_is_fitted,
                                        !.y = y, !.X = X,
                                        !.update_params = update_params]
            /\ calls' = <<>>
            /\ UNCHANGED <<forecasters_, cutoff>>
       ELSE \E r \in {_update(y, X, update_params)} :
                /\ forecasters_' = r.forecasters_
                /\ calls' = r.calls
                /\ cutoff' = y.start + Len(y.vals) - 1
                /\ ret' = [NoOutcome EXCEPT !.op = "update", !.after = ret.op,
                                            !.ok = (r.error = ""),
                                            !.error = r.error,
                                            !.y = y, !.X = X,
                                            !.update_params = update_params]
    /\ nops' = nops + 1
    /\ fault' = NoFault
    /\ UNCHANGED <<state, base_forecaster, num_iter, _base_forecaster, nextId,
                   tags>>

Next ==
    \/ \E bf \in Templates \cup {NoneForecaster}, n \in -1..MaxIter :
          Construct(bf, n)
    \/ \E y \in SeriesAt(1), X \in XChoices : Fit(y, X, FitFh)
    \/ \E fh \in FhChoices, X \in XChoices : Predict(fh, X)
    \/ \E y \in SeriesAt(cutoff + 1), X \in XChoices, up \in BOOLEAN :
          Update(y, X, up)

Spec == Init /\ [][Next]_vars

\* one construction, over templates that declare every combination of tags
NextTags ==
    \E bf \in TagTemplates \cup {NoneForecaster}, n \in -1..MaxIter :
        ret.op = "none" /\ Construct(bf, n)

SpecTags == Init /\ [][NextTags]_vars

\* Series for the mean forecaster, in halves of a unit so that every mean is
\* a whole number of halves: the first is y = 1, 2, ..., 10 (mean 5.5)
MeanSeriesVals ==
    { [i \in 1..10 |-> 2 * i], <<2, 4>>, <<0, 2>>, <<4, 0>>, <<6, 2, 4>>, <<0, 0, 6>> }

MeanSeriesAt(start) == {[start |-> start, vals |-> v] : v \in MeanSeriesVals}

\* fit and predict of an ensemble of mean forecasters
NextMean ==
    \/ \E n \in 1..MaxIter : Construct(MeanForecaster, n)
    \/ \E y \in MeanSeriesAt(1) : Fit(y, NoneX, FitFh)
    \/ \E fh \in FhChoices : Predict(fh, NoneX)

SpecMean == Init /\ [][NextMean]_vars

----------------------------------------------------------------------------
\* notebooks/utils.py: display_hierarchical_timeseries

\* the level-0 keys an index of y_train can hold
FirstLevelKeys == {"__total", "A", "B", "C", "D"}

\* y_train.index.get_level_values(0).unique(): the keys in their order of
\* appearance, each once; y_train has at least one row
FirstLevelOrders ==
    { s \in UNION {[1..n -> FirstLevelKeys] : n \in 1..Cardinality(FirstLevelKeys)} :
        \A i, j \in 1..Len(s) : s[i] = s[j] => i = j }

\* [option for option in available_first_level if option != "__total"]
options_of(available_first_level) ==
    SelectSeq(available_first_level, LAMBDA option : option # "__total")

\* widgets.Dropdown(options=..., value=available_first_level[0], ...)
display_hierarchical_timeseries(available_first_level) ==
    /\ ~first_level_selector.created
    /\ first_level_selector' = [created |-> TRUE,
                                options |-> options_of(available_first_level),
                                value |-> available_first_level[1]]
    /\ UNCHANGED <<state, base_forecaster, num_iter, _base_forecaster,
                   forecasters_, cutoff, nextId, calls, ret, nops, tags, fault>>

NextDropdown ==
    \E available_first_level \in FirstLevelOrders :
        display_hierarchical_timeseries(available_first_level)

SpecDropdown == Init /\ [][NextDropdown]_vars

\* the calls of a base forecaster that can raise: fit, predict or update
\* of one round
Faults == {[op |-> op, k |-> k] : op \in {"fit", "predict", "update"}, k \in 1..MaxIter}

\* the base forecaster of round f.k raises in its next call of f.op
Arm(f) ==
    /\ state \in {"unfitted", "fitted"}
    /\ UNCHANGED first_level_selector
    /\ nops < MaxOps
    /\ fault = NoFault
    /\ f.k <= num_iter
    /\ fault' = f
    /\ UNCHANGED <<state, base_forecaster, num_iter, _base_forecaster,
                   forecasters_, cutoff, nextId, calls, ret, nops, tags>>

\* the series fitted and updated on while base forecasters can raise
ErrSeriesAt(start) == {y \in SeriesAt(start) : y.vals \in {<<0, 1>>, <<1, 0, 1>>}}

\* fit and update over base forecasters that can raise; after an error the
\* ensemble is only fitted anew
NextErr ==
    \/ \E bf \in {Template("trend", TRUE, FALSE), NoneForecaster}, n \in 1..MaxIter :
          Construct(bf, n)
    \/ \E f \in Faults : Arm(f)
    \/ \E y \in ErrSeriesAt(1) : Fit(y, NoneX, FitFh)
    \/ \E y \in ErrSeriesAt(cutoff + 1), up \in BOOLEAN :
          ret.error # "BaseError" /\ Update(y, NoneX, up)

SpecErr == Init /\ [][NextErr]_vars


\* ------------------------------------------------------------ properties
RECURSIVE SumPreds(_, _, _, _)
\* the position-wise sum of the predictions of the first k forecasters of fs
SumPreds(fs, k, fh, X) ==
    IF k = 0 THEN Zeros(Len(fh.at))
    ELSE SeqAdd(SumPreds(fs, k - 1, fh, X), BasePredict(fs[k], fh, X))

\* the horizon of the in-sample predictions: every time point of y
InsampleFh(y) == AbsFh(Index(y))

\* C1: after fit, round i (0-based) was fitted on y minus the position-wise
\* sum of the in-sample predictions of all rounds before it (y itself for
\* round 0), each round by one fit call on its own clone.
C1_FitTargetIsCumulativeResidual ==
    ret.op = "fit" =>
        /\ Len(calls) = 2 * num_iter
        /\ \A i \in 0..(num_iter - 1) :
              /\ calls[2 * i + 1].op = "fit"
              /\ calls[2 * i + 1].id = forecasters_[i + 1].id
              /\ calls[2 * i + 1].target =
                    SeqSub(ret.y.vals,
                           SumPreds(forecasters_, i, InsampleFh(ret.y), ret.X))

\* a fit of three rounds whose third target differs from y minus the second
\* round's in-sample prediction alone
C1_Witness ==
    /\ ret.op = "fit"
    /\ num_iter >= 3
    /\ calls[5].target #
          SeqSub(ret.y.vals, BasePredict(forecasters_[2], InsampleFh(ret.y), ret.X))
    /\ calls[5].target # calls[3].target

\* C2: a successful predict returns the position-wise sum of the predictions
\* of every forecaster of the ensemble, each asked once, in order, with the
\* fh and X of the call, and asks nothing else of them.
C2_PredictIsSumOfRounds ==
    (ret.op = "predict" /\ ret.ok) =>
        /\ ret.value = SumPreds(forecasters_, Len(forecasters_), ret.fh, ret.X)
        /\ Len(calls) = Len(forecasters_)
        /\ \A k \in 1..Len(calls) :
              calls[k] = Call("predict", forecasters_[k].id, <<>>, ret.fh, ret.X, FALSE)

\* a predict over an ensemble of three rounds, two of which contribute
C2_Witness ==
    /\ ret.op = "predict" /\ ret.ok
    /\ Len(forecasters_) = 3
    /\ ret.X # NoneX
    /\ Len(ret.fh.at) = 2
    /\ ret.value # BasePredict(forecasters_[3], ret.fh, ret.X)
    /\ ret.value # BasePredict(forecasters_[1], ret.fh, ret.X)

\* C3: after every fit the ensemble holds exactly num_iter forecasters.
C3_EnsembleLengthIsNumIter ==
    (ret.op = "fit" /\ ret.ok) => Len(forecasters_) = num_iter

\* a re-fit of an instance that was fitted and then updated
C3_Witness ==
    /\ ret.op = "fit" /\ ret.ok
    /\ ret.after = "update"
    /\ state = "fitted"
    /\ num_iter >= 2
    /\ Len(forecasters_) = num_iter

\* C4: construction raises ValueError exactly when num_iter < 1 or the
\* resolved template (the default one for None) lacks in-sample prediction,
\* and then no instance exists; otherwise it yields an unfitted instance.
C4_ConstructionErrors ==
    ret.op = "init" =>
        LET template == IF ret.bf = NoneForecaster THEN ExponentialSmoothing
                        ELSE ret.bf
            bad == ret.n < 1 \/ ~template.insample
        IN  /\ bad => (~ret.ok /\ ret.error = "ValueError" /\ state = "none")
            /\ ~bad => /\ ret.ok /\ state = "unfitted"
                       /\ num_iter = ret.n /\ base_forecaster = ret.bf
                       /\ _base_forecaster = template

\* num_iter = 0 with a template that supports in-sample prediction
C4_Witness ==
    /\ ret.op = "init"
    /\ ret.n = 0
    /\ ret.bf \in Templates /\ ret.bf.insample
    /\ ~ret.ok


\* the step is one call of operation op
Did(op) == ret'.op = op /\ nops' = nops + 1

\* the identities of the forecasters of an ensemble, in order
Ids(fs) == [k \in 1..Len(fs) |-> fs[k].id]

\* C5: an instance becomes fitted only by a successful fit and stays fitted
\* under update and predict; predict and update on an instance that was
\* never fitted raise the state error, return no value and change nothing.
C5_Lifecycle ==
    [][ /\ (state = "unfitted" /\ state' = "fitted") => (Did("fit") /\ ret'.ok)
        /\ (state = "unfitted" /\ Did("fit")) => state' = "fitted"
        /\ state = "fitted" => state' = "fitted"
        /\ (state = "fitted" /\ Did("update")) => ret'.ok
        /\ (state = "unfitted" /\ (Did("predict") \/ Did("update"))) =>
              /\ ~ret'.ok
              /\ ret'.error = "NotFittedError"
              /\ ret'.value = <<>>
              /\ calls' = <<>>
              /\ UNCHANGED <<state, forecasters_, cutoff>>
      ]_vars

\* predict on an instance that was constructed and never fitted
C5_Witness ==
    /\ state = "unfitted"
    /\ ret.op = "predict"
    /\ ~ret.ok /\ ret.error = "NotFittedError"

\* C6: with num_iter = 1, the predict that follows fit(y, X, fh) returns what
\* one clone of the template, fitted on the same y, X, fh, predicts for the
\* same fh and X.
C6_OneRoundIsBaseForecaster ==
    [][ (ret.op = "fit" /\ num_iter = 1 /\ Did("predict")) =>
           /\ ret'.ok
           /\ ret'.value =
                 BasePredict(BaseFit(Clone(_base_forecaster, 0), ret.y, ret.X, ret.fh),
                             ret'.fh, ret'.X)
      ]_vars

\* a one-round ensemble fitted with X, then asked for two steps ahead
C6_Witness ==
    /\ ret.op = "predict" /\ ret.ok /\ ret.after = "fit"
    /\ num_iter = 1
    /\ ~_base_forecaster.ignoresX
    /\ ret.X # NoneX
    /\ Len(ret.value) = 2
    /\ ret.value # <<0, 0>>

\* C7: update calls the k-th forecaster's update, in fit order, with the new
\* y minus the sum of the in-sample predictions, over the new y's time
\* points, of the forecasters before it as they are after this pass (the new
\* y itself for the first), handing update_params on.
C7_UpdateTargetIsCumulativeResidual ==
    (ret.op = "update" /\ ret.ok) =>
        /\ Len(calls) = 2 * Len(forecasters_)
        /\ \A k \in 1..Len(forecasters_) :
              calls[2 * k - 1] =
                 Call("update", forecasters_[k].id,
                      SeqSub(ret.y.vals,
                             SumPreds(forecasters_, k - 1, InsampleFh(ret.y), ret.X)),
                      NoFh, ret.X, ret.update_params)

\* an update of three forecasters whose third target differs from the new y
\* minus the second forecaster's prediction alone, and from the first target
C7_Witness ==
    /\ ret.op = "update" /\ ret.ok
    /\ Len(forecasters_) >= 3
    /\ calls[1].target = ret.y.vals
    /\ calls[5].target #
          SeqSub(ret.y.vals, BasePredict(forecasters_[2], InsampleFh(ret.y), ret.X))
    /\ calls[5].target # calls[3].target

\* C8: an update leaves the ensemble holding the same forecaster instances
\* in the same order, num_iter of them.
C8_UpdateKeepsRounds ==
    [][ (state = "fitted" /\ Did("update")) =>
           /\ Ids(forecasters_') = Ids(forecasters_)
           /\ Len(forecasters_') = num_iter
      ]_vars

\* a second update in a row on an ensemble of at least two rounds, the
\* forecasters still those of the fit
C8_Witness ==
    /\ ret.op = "update" /\ ret.ok /\ ret.after = "update"
    /\ num_iter >= 2
    /\ Ids(forecasters_) = [k \in 1..num_iter |-> nextId - num_iter + k - 1]

\* C9: update with update_params false returns, changes no forecaster's
\* fitted parameters, no attribute set by the constructor and not the
\* ensemble's length, and still asks every forecaster for its in-sample
\* prediction to form the next residual target.
C9_UpdateWithoutParams ==
    [][ (state = "fitted" /\ Did("update") /\ ~ret'.update_params) =>
           /\ ret'.ok
           /\ Len(forecasters_') = Len(forecasters_)
           /\ \A k \in 1..Len(forecasters_) :
                 /\ Params(forecasters_'[k]) = Params(forecasters_[k])
                 /\ calls'[2 * k - 1].op = "update"
                 /\ calls'[2 * k] = Call("predict", forecasters_[k].id, <<>>,
                                         InsampleFh(ret'.y), ret'.X, FALSE)
           /\ UNCHANGED <<base_forecaster, num_iter, _base_forecaster>>
      ]_vars

\* an update without parameters whose second target is a residual that
\* differs from the new y
C9_Witness ==
    /\ ret.op = "update" /\ ret.ok /\ ~ret.update_params
    /\ Len(forecasters_) >= 2
    /\ calls[3].target # ret.y.vals
    /\ \E k \in 1..Len(forecasters_) : forecasters_[k].cutoff # forecasters_[k].t0

\* C10: predict changes nothing of the instance, and a predict that follows
\* a predict with the same fh and X returns the same value.
C10_PredictIsPure ==
    [][ Did("predict") =>
           /\ UNCHANGED <<state, base_forecaster, num_iter, _base_forecaster,
                          forecasters_, cutoff, nextId>>
           /\ (ret.op = "predict" /\ ret.fh = ret'.fh /\ ret.X = ret'.X) =>
                 (ret'.ok = ret.ok /\ ret'.value = ret.value)
      ]_vars

\* a predict that directly follows another predict on a fitted ensemble
C10_Witness ==
    /\ ret.op = "predict" /\ ret.ok /\ ret.after = "predict"
    /\ nops = 3
    /\ Len(forecasters_) >= 2
    /\ ret.value = SumPreds(forecasters_, Len(forecasters_), ret.fh, ret.X)
    /\ \E k \in 1..Len(ret.value) : ret.value[k] # 0


\* C11: when fit returns, the caller's y and X hold the values they had when
\* it was called, and the ensemble is the one built from those values.
C11_FitLeavesInputsAlone ==
    (ret.op = "fit" /\ ret.ok) =>
        /\ ret.caller_y = ret.y.vals
        /\ ret.caller_X = ret.X
        /\ LET built == _fit_objects(ret.y, ret.X, ret.fh).forecasters_
           IN  /\ Len(built) = Len(forecasters_)
               /\ \A k \in 1..Len(built) :
                     Params(built[k]) = Params(forecasters_[k])

\* a fit with X of at least two rounds, the second on a residual that is
\* not y
C11_Witness ==
    /\ ret.op = "fit" /\ ret.ok
    /\ num_iter >= 2
    /\ ret.X # NoneX
    /\ calls[3].target # ret.y.vals
    /\ ret.caller_y = ret.y.vals


\* the tags the ensemble is to share with its template
SharedTags ==
    {"ignores-exogeneous-X", "capability:exogenous", "requires-fh-in-fit",
     "X-y-must-have-same-index", "enforce_index_type", "handles-missing-data",
     "python_version", "python_dependencies"}

\* C12: a constructed ensemble reads, for exogenous handling, horizon at
\* fit, same index of X and y, index type, missing data, Python version and
\* dependencies, the values its template declares.
C12_TagsFollowTemplate ==
    state \in {"unfitted", "fitted"} =>
        /\ num_iter >= 1
        /\ _base_forecaster.insample
        /\ \A t \in SharedTags : tags[t] = _base_forecaster.tags[t]

\* an ensemble whose template declares, for every shared tag, another value
\* than the class attribute _tags gives
C12_Witness ==
    /\ state = "unfitted"
    /\ base_forecaster \in TagTemplates
    /\ \A t \in SharedTags \cap DOMAIN _tags : _base_forecaster.tags[t] # _tags[t]
    /\ _base_forecaster.tags["capability:exogenous"] = "True"
    /\ \A t \in SharedTags : tags[t] = _base_forecaster.tags[t]

\* the armed fault is met by this operation: the operation calls f.op on the
\* base forecaster of round f.k
FaultFires(op) ==
    /\ fault # NoFault
    /\ \/ op = "fit" /\ fault.op \in {"fit", "predict"} /\ fault.k <= num_iter
       \/ /\ op = "update" /\ state = "fitted"
          /\ fault.op \in {"update", "predict"} /\ fault.k <= Len(forecasters_)

\* C13: an error raised by a base forecaster in round k of fit or update is
\* not caught and not retried: the operation fails with that same error, the
\* failing call is the last call made (no later round is fitted or updated),
\* a failed fit has appended nothing for round k, a failed update has left
\* the rounds after k as they were.
C13_BaseErrorPropagates ==
    [][ \A op \in {"fit", "update"} :
          (Did(op) /\ FaultFires(op)) =>
              /\ ~ret'.ok
              /\ ret'.error = "BaseError"
              /\ Len(calls') = 2 * (fault.k - 1) + (IF fault.op = "predict" THEN 2 ELSE 1)
              /\ calls'[Len(calls')].op = fault.op
              /\ op = "fit" =>
                    /\ Len(forecasters_') = fault.k - 1
                    /\ calls'[Len(calls')].id = nextId + fault.k - 1
              /\ op = "update" =>
                    /\ Len(forecasters_') = Len(forecasters_)
                    /\ calls'[Len(calls')].id = forecasters_[fault.k].id
                    /\ \A j \in (fault.k + 1)..Len(forecasters_) :
                          forecasters_'[j] = forecasters_[j]
      ]_vars

\* an update failed in the prediction of its second round, a third round exists
C13_Witness ==
    /\ ret.op = "update" /\ ~ret.ok /\ ret.error = "BaseError"
    /\ Len(calls) = 4 /\ calls[4].op = "predict"
    /\ Len(forecasters_) = 3

RECURSIVE SumSq(_)
SumSq(a) == IF a = <<>> THEN 0 ELSE Head(a) * Head(a) + SumSq(Tail(a))

\* the sum of squared residuals of y after k rounds: y minus the cumulative
\* in-sample prediction of the first k forecasters
SSE(y, X, fs, k) == SumSq(SeqSub(y.vals, SumPreds(fs, k, InsampleFh(y), X)))

\* C14: with a base forecaster that predicts the mean of its training
\* series, fit builds num_iter rounds and the sum of squared residuals after
\* round k+1 is at most that after round k, for every consecutive pair of
\* rounds; y = 1..10 with num_iter = 3 is one of the fits.
C14_ResidualsNeverGrow ==
    (ret.op = "fit" /\ ret.ok /\ base_forecaster = MeanForecaster) =>
        /\ Len(forecasters_) = num_iter
        /\ \A k \in 1..(num_iter - 1) :
              SSE(ret.y, ret.X, forecasters_, k + 1) <= SSE(ret.y, ret.X, forecasters_, k)

\* y = 1, 2, ..., 10 (in halves) fitted with three rounds of mean forecasters;
\* the first round predicts 5.5 and leaves a residual
C14_Witness ==
    /\ ret.op = "fit" /\ ret.ok /\ base_forecaster = MeanForecaster
    /\ ret.y.vals = [i \in 1..10 |-> 2 * i]
    /\ num_iter = 3 /\ Len(forecasters_) = 3
    /\ BasePredict(forecasters_[1], InsampleFh(ret.y), ret.X) = [i \in 1..10 |-> 11]
    /\ SSE(ret.y, ret.X, forecasters_, 3) = SSE(ret.y, ret.X, forecasters_, 1)
    /\ SSE(ret.y, ret.X, forecasters_, 1) = 330

\* C15: after every fit, predict and update the forecasters of the ensemble
\* are pairwise distinct objects, none of them is the template object, no
\* call of the operation was made on the template object, and the
\* constructor-set base_forecaster, num_iter and the resolved template are
\* what they were before the operation.
C15_RoundsOwnTheirClones ==
    [][ (\E op \in {"fit", "predict", "update"} : Did(op)) =>
          /\ \A j, k \in 1..Len(forecasters_') :
                j # k => forecasters_'[j].id # forecasters_'[k].id
          /\ \A k \in 1..Len(forecasters_') : forecasters_'[k].id # TemplateId
          /\ \A c \in 1..Len(calls') : calls'[c].id # TemplateId
          /\ UNCHANGED <<base_forecaster, num_iter, _base_forecaster>>
      ]_vars

\* three rounds fitted and then updated with new parameters
C15_Witness ==
    /\ ret.op = "update" /\ ret.ok /\ ret.update_params /\ ret.after = "fit"
    /\ Len(forecasters_) = 3 /\ Len(calls) = 6
    /\ Cardinality({forecasters_[k].id : k \in 1..3}) = 3

\* the forecast summed over an ensemble, as _predict sums it
PredictOf(fs, fh, X) == predict_rounds(1, fs, fh, X, Zeros(Len(fh.at)), <<>>).y_pred

\* the training targets of the rounds, read off the logged fit calls
FitTargets(log) == [k \in 1..(Len(log) \div 2) |-> log[2 * k - 1].target]

\* C16: the draft _fit of forecaster_3.py, run on the inputs of a fit, fits
\* rounds 0 and 1 on the same targets as _fit of forecaster.py; with
\* num_iter <= 2 it therefore makes the same calls, builds the same ensemble
\* and gives the same forecast for every horizon and X.
C16_DraftAgreesUpToTwoRounds ==
    [][ (Did("fit") /\ ret'.ok) =>
          \E draft \in {forecaster_3_fit(ret'.y, ret'.X, ret'.fh)} :
              /\ \A k \in 1..Len(forecasters_') :
                    k <= 2 => FitTargets(draft.calls)[k] = FitTargets(calls')[k]
              /\ num_iter <= 2 =>
                    /\ draft.calls = calls'
                    /\ draft.forecasters_ = forecasters_'
                    /\ \A fh \in FhChoices, X \in XChoices :
                          PredictOf(draft.forecasters_, fh, X) = PredictOf(forecasters_', fh, X)
      ]_vars

\* a fit with three rounds where the draft would fit round 2 on another target
C16_Witness ==
    /\ ret.op = "fit" /\ ret.ok /\ num_iter = 3
    /\ FitTargets(forecaster_3_fit(ret.y, ret.X, ret.fh).calls)[2] = FitTargets(calls)[2]
    /\ FitTargets(forecaster_3_fit(ret.y, ret.X, ret.fh).calls)[3] # FitTargets(calls)[3]

\* the options of a dropdown, as a set
OptionSet(selector) == {selector.options[i] : i \in 1..Len(selector.options)}

\* C17: the value a created dropdown starts with is one of its options.
C17_InitialValueIsAnOption ==
    first_level_selector.created =>
        first_level_selector.value \in OptionSet(first_level_selector)

\* C17, what the code guarantees: the initial value is an option exactly
\* when it is not "__total", that is when "__total" is not the first key.
C17_InitialValueUnlessTotalFirst ==
    first_level_selector.created =>
        (first_level_selector.value \in OptionSet(first_level_selector)
            <=> first_level_selector.value # "__total")

\* "__total" is the first key and other keys follow: the value is no option
C17_Witness ==
    /\ first_level_selector.created
    /\ first_level_selector.value = "__total"
    /\ first_level_selector.options = <<"A", "B">>

====
